---- MODULE Spec2Model ----
(***************************************************************************)
(* Volatility-reference engine of ivrv (src/server-v3.ts).                 *)
(*                                                                         *)
(* Two parts of the program are modelled, each with its own specification: *)
(*   SpecHistory - the bounded history of daily surprise ratios            *)
(*                 (saveDailyRecord, calculateHistoricalStats);            *)
(*   SpecExpiry  - the expiry arithmetic of createDailySnapshot            *)
(*                 (getNextFriday, getMonthlyExpiry, getLastFridayOfMonth  *)
(*                 and the weekly = monthly correction).                   *)
(*                                                                         *)
(* Units.  A surprise ratio is a JavaScript number; the model holds it as  *)
(* an integer number of hundredths (123 is 1.23) and compares means by     *)
(* cross-multiplication, so no division rounds.  A date string             *)
(* 'YYYY-MM-DD' is held as the number of the UTC day it names (days since  *)
(* 1970-01-01).  A Date is a record [day, ms]: the UTC day number and the  *)
(* milliseconds elapsed in that day; its getTime() is day*MsPerDay + ms.   *)
(***************************************************************************)
EXTENDS Integers, Sequences, FiniteSets, TLC

VARIABLES
    historicalRecords,  \* server-v3.ts:74, the DailyRecord[] in insertion order
    stats,              \* the HistoricalStats last returned by calculateHistoricalStats
    lastCall,           \* the operation that ran last, with its arguments
    recordsBefore,      \* historicalRecords as it was when that operation started
    calls,              \* number of saveDailyRecord calls made so far
    clock,              \* the wall clock, read by every new Date()
    ticks,              \* number of clock advances during the computation
    pc,                 \* position in the expiry computation of createDailySnapshot
    fridayNow,          \* `now` as read by getNextFriday
    nextFriday,         \* server-v3.ts:250
    monthlyNow,         \* `now` as read by getMonthlyExpiry
    monthlyExpiry,      \* server-v3.ts:251
    finalMonthlyExpiry, \* server-v3.ts:257
    atm,                \* a findATMStrike call: its arguments and what it returned
    quote,              \* two option legs built by getOptionData and their comparison
    wallClock,          \* the server's clock, read by new Date() and Date.now()
    currentSnapshot,    \* server-v3.ts:73
    weeklyReferenceSnapshot,    \* server-v3.ts:75
    monthlyReferenceSnapshot,   \* server-v3.ts:76
    builds,             \* the createDailySnapshot calls: position and locals of each
    reader,             \* the /api/current request being served
    lastResponse,       \* the /api/current response sent last
    lastBuilt,          \* the snapshot returned by the latest createDailySnapshot that returned
    lastFridayCall,     \* a getLastFridayOfMonth call: its arguments and what it returned
    fetchCall,          \* a fetchWithTimeout call of api/current.ts
    edge                \* the expiries computed by the handler of api/current.ts

serverVars == <<wallClock, currentSnapshot, weeklyReferenceSnapshot,
                monthlyReferenceSnapshot, builds, reader, lastResponse, lastBuilt>>
callVars == <<lastFridayCall, fetchCall, edge>>
histVars == <<historicalRecords, stats, lastCall, recordsBefore, calls>>
expiryVars == <<clock, ticks, pc, fridayNow, nextFriday, monthlyNow,
                monthlyExpiry, finalMonthlyExpiry>>
vars == <<historicalRecords, stats, lastCall, recordsBefore, calls,
          clock, ticks, pc, fridayNow, nextFriday, monthlyNow,
          monthlyExpiry, finalMonthlyExpiry, atm, quote,
          wallClock, currentSnapshot, weeklyReferenceSnapshot,
          monthlyReferenceSnapshot, builds, reader, lastResponse, lastBuilt,
          lastFridayCall, fetchCall, edge>>
\* What the history operations, and the expiry computation, leave alone.
outsideHistory == <<expiryVars, atm, quote, serverVars, callVars>>
outsideExpiry == <<histVars, atm, quote, serverVars, callVars>>
outsideATM == <<histVars, expiryVars, quote, serverVars, callVars>>
outsideQuote == <<histVars, expiryVars, atm, serverVars, callVars>>
outsideServer == <<lastCall, recordsBefore, calls, expiryVars, atm, quote, callVars>>

(***************************************************************************)
(* Program constants                                                       *)
(***************************************************************************)
MaxRecords == 30        \* "Keep only last 30 days"
MinStatsRecords == 3    \* "Need at least 3 days of data"
TrendRecords == 6       \* records needed for a trend
TrendWindow == 3        \* slice(-3) and slice(-6, -3)
TrendThreshold == 15    \* 0.15, in hundredths

(***************************************************************************)
(* Bounds of the history model                                             *)
(***************************************************************************)
MaxCalls == 2           \* saveDailyRecord calls explored from each start
MaxNewDates == 1        \* dates offered beyond the first MaxRecords days

\* Histories the exploration starts from: the server after that many
\* consecutive days with one saved record each.
StartLens == {0, 2, 4, MaxRecords - 1, MaxRecords}

\* <<weeklySurprise, monthlySurprise, btcPrice>> of a call; the surprise
\* values are spaced so that sums of windows land on, just above and just
\* below the trend threshold on either side.
Readings ==
    { <<100, 100, 42000>>, <<122, 122, 42500>>, <<123, 122, 43000>>,
      <<122, 123, 43500>>, <<145, 145, 44000>> }

\* Readings the starting histories are filled with: the lowest and the
\* highest, so that later calls can move a window by 0.15 either way.
StartReadings == { <<100, 100, 42000>>, <<145, 145, 44000>> }

\* Dates offered to saveDailyRecord: the two oldest days and the days around
\* the capacity of the history.
CallDates == {1, 2} \cup ((MaxRecords - 1)..(MaxRecords + MaxNewDates))

(***************************************************************************)
(* HistoryStore: saveDailyRecord                                           *)
(***************************************************************************)
DailyRecord(date, weeklySurprise, monthlySurprise, btcPrice) ==
    [date |-> date, weeklySurprise |-> weeklySurprise,
     monthlySurprise |-> monthlySurprise, btcPrice |-> btcPrice]

\* Array.prototype.findIndex(r => r.date === date): the first match, as a
\* 1-based index; 0 stands for JavaScript's -1.
FindIndex(records, date) ==
    IF \E i \in 1..Len(records) : records[i].date = date
    THEN CHOOSE i \in 1..Len(records) :
            /\ records[i].date = date
            /\ \A j \in 1..(i - 1) : records[j].date # date
    ELSE 0

\* Array.prototype.splice(index, 1), with a 1-based index.
Splice(records, index) ==
    [i \in 1..(Len(records) - 1) |->
        IF i < index THEN records[i] ELSE records[i + 1]]

\* saveDailyRecord without the eviction of lines 440-442.
SaveRecordNoEviction(records, date, weeklySurprise, monthlySurprise, btcPrice) ==
    LET existingIndex == FindIndex(records, date)
        removed == IF existingIndex >= 1 THEN Splice(records, existingIndex)
                   ELSE records
    IN  Append(removed, DailyRecord(date, weeklySurprise, monthlySurprise, btcPrice))

\* saveDailyRecord evicting with pop() in place of shift().
SaveRecordEvictNewest(records, date, weeklySurprise, monthlySurprise, btcPrice) ==
    LET existingIndex == FindIndex(records, date)
        removed == IF existingIndex >= 1 THEN Splice(records, existingIndex)
                   ELSE records
        pushed == Append(removed,
                    DailyRecord(date, weeklySurprise, monthlySurprise, btcPrice))
    IN  IF Len(pushed) > MaxRecords THEN SubSeq(pushed, 1, Len(pushed) - 1)
        ELSE pushed

\* saveDailyRecord without the removal of lines 432-435.
SaveRecordNoRemoval(records, date, weeklySurprise, monthlySurprise, btcPrice) ==
    LET pushed == Append(records,
                    DailyRecord(date, weeklySurprise, monthlySurprise, btcPrice))
    IN  IF Len(pushed) > MaxRecords THEN Tail(pushed) ELSE pushed

\* saveDailyRecord overwriting the found record where it stands.
SaveRecordInPlace(records, date, weeklySurprise, monthlySurprise, btcPrice) ==
    LET existingIndex == FindIndex(records, date)
        written == IF existingIndex >= 1
                   THEN [records EXCEPT ![existingIndex] =
                            DailyRecord(date, weeklySurprise, monthlySurprise, btcPrice)]
                   ELSE Append(records,
                            DailyRecord(date, weeklySurprise, monthlySurprise, btcPrice))
    IN  IF Len(written) > MaxRecords THEN Tail(written) ELSE written

\* The array saveDailyRecord leaves behind.
SaveRecord(records, date, weeklySurprise, monthlySurprise, btcPrice) ==
    LET existingIndex == FindIndex(records, date)
        removed == IF existingIndex >= 1 THEN Splice(records, existingIndex)
                   ELSE records
        pushed == Append(removed,
                    DailyRecord(date, weeklySurprise, monthlySurprise, btcPrice))
    IN  IF Len(pushed) > MaxRecords THEN Tail(pushed) ELSE pushed

saveDailyRecord(date, weeklySurprise, monthlySurprise, btcPrice) ==
    /\ calls < MaxCalls
    /\ historicalRecords' =
          SaveRecord(historicalRecords, date, weeklySurprise, monthlySurprise, btcPrice)
    /\ recordsBefore' = historicalRecords
    /\ lastCall' = [op |-> "save", date |-> date, weeklySurprise |-> weeklySurprise,
                    monthlySurprise |-> monthlySurprise, btcPrice |-> btcPrice]
    /\ calls' = calls + 1
    /\ UNCHANGED stats
    /\ UNCHANGED outsideHistory

(***************************************************************************)
(* HistoryStore: calculateHistoricalStats                                  *)
(***************************************************************************)
RECURSIVE SumWeekly(_), SumMonthly(_)
\* reduce((sum, r) => sum + r.weeklySurprise, 0)
SumWeekly(records) ==
    IF records = <<>> THEN 0
    ELSE records[1].weeklySurprise + SumWeekly(Tail(records))

\* reduce((sum, r) => sum + r.monthlySurprise, 0)
SumMonthly(records) ==
    IF records = <<>> THEN 0
    ELSE records[1].monthlySurprise + SumMonthly(Tail(records))

\* Array.prototype.slice(-n): the last n elements.
SliceLast(records, n) ==
    SubSeq(records, Len(records) - n + 1, Len(records))

\* Array.prototype.slice(-from, -to): from the from-th last up to, not
\* including, the to-th last element.
SliceBetween(records, from, to) ==
    SubSeq(records, Len(records) - from + 1, Len(records) - to)

\* The trend with >= and <= in place of > and <.
TrendOfInclusive(recentSum, olderSum) ==
    IF recentSum - olderSum >= TrendWindow * TrendThreshold THEN "UP"
    ELSE IF recentSum - olderSum <= -(TrendWindow * TrendThreshold) THEN "DOWN"
    ELSE "FLAT"

\* diff > 0.15 ? UP : diff < -0.15 ? DOWN : FLAT, where
\* diff = recentSum / 3 - olderSum / 3 in hundredths; both sides of each
\* comparison are multiplied by the window length.
TrendOf(recentSum, olderSum) ==
    IF recentSum - olderSum > TrendWindow * TrendThreshold THEN "UP"
    ELSE IF recentSum - olderSum < -(TrendWindow * TrendThreshold) THEN "DOWN"
    ELSE "FLAT"

\* The sentinel returned for up to and including MinStatsRecords records.
HistoricalStatsSentinelAt3(records) ==
    IF Len(records) <= MinStatsRecords
    THEN [weeklyAvgSurprise |-> [num |-> 0, den |-> 1],
          weeklyTrend |-> "FLAT",
          monthlyAvgSurprise |-> [num |-> 0, den |-> 1],
          monthlyTrend |-> "FLAT",
          daysTracked |-> 0]
    ELSE [weeklyAvgSurprise |-> [num |-> SumWeekly(records), den |-> Len(records)],
          weeklyTrend |-> "FLAT",
          monthlyAvgSurprise |-> [num |-> SumMonthly(records), den |-> Len(records)],
          monthlyTrend |-> "FLAT",
          daysTracked |-> Len(records)]

\* The trend computed from MinStatsRecords records on, the older window
\* being whatever precedes the recent one (at most TrendWindow records).
HistoricalStatsTrendFrom3(records) ==
    IF Len(records) < MinStatsRecords
    THEN [weeklyAvgSurprise |-> [num |-> 0, den |-> 1],
          weeklyTrend |-> "FLAT",
          monthlyAvgSurprise |-> [num |-> 0, den |-> 1],
          monthlyTrend |-> "FLAT",
          daysTracked |-> 0]
    ELSE LET n == Len(records)
             recent3 == SubSeq(records, n - TrendWindow + 1, n)
             older3 == SubSeq(records,
                              IF n >= TrendRecords THEN n - TrendRecords + 1 ELSE 1,
                              n - TrendWindow)
         IN [weeklyAvgSurprise |-> [num |-> SumWeekly(records), den |-> n],
             weeklyTrend |-> TrendOf(SumWeekly(recent3), SumWeekly(older3)),
             monthlyAvgSurprise |-> [num |-> SumMonthly(records), den |-> n],
             monthlyTrend |-> TrendOf(SumMonthly(recent3), SumMonthly(older3)),
             daysTracked |-> n]

\* An average is the fraction num/den of hundredths.
HistoricalStats(records) ==
    IF Len(records) < MinStatsRecords
    THEN [weeklyAvgSurprise |-> [num |-> 0, den |-> 1],
          weeklyTrend |-> "FLAT",
          monthlyAvgSurprise |-> [num |-> 0, den |-> 1],
          monthlyTrend |-> "FLAT",
          daysTracked |-> 0]
    ELSE LET recent3 == SliceLast(records, TrendWindow)
             older3 == SliceBetween(records, TrendRecords, TrendWindow)
             enough == Len(records) >= TrendRecords
         IN [weeklyAvgSurprise |-> [num |-> SumWeekly(records), den |-> Len(records)],
             weeklyTrend |-> IF enough
                             THEN TrendOf(SumWeekly(recent3), SumWeekly(older3))
                             ELSE "FLAT",
             monthlyAvgSurprise |-> [num |-> SumMonthly(records), den |-> Len(records)],
             monthlyTrend |-> IF enough
                              THEN TrendOf(SumMonthly(recent3), SumMonthly(older3))
                              ELSE "FLAT",
             daysTracked |-> Len(records)]

calculateHistoricalStats ==
    /\ stats' = HistoricalStats(historicalRecords)
    /\ lastCall' = [op |-> "stats"]
    /\ recordsBefore' = historicalRecords
    /\ UNCHANGED <<historicalRecords, calls>>
    /\ UNCHANGED outsideHistory

NoStats == [daysTracked |-> -1]
NoDate == [day |-> -1, ms |-> 0]

ExpiryIdle ==
    /\ clock = NoDate
    /\ ticks = 0
    /\ pc = "off"
    /\ fridayNow = NoDate
    /\ nextFriday = NoDate
    /\ monthlyNow = NoDate
    /\ monthlyExpiry = NoDate
    /\ finalMonthlyExpiry = NoDate

StartHistory(n, reading) ==
    [i \in 1..n |-> DailyRecord(i, reading[1], reading[2], reading[3])]

NoCall == [called |-> FALSE]
AtmIdle == atm = NoCall
LastFridayIdle == lastFridayCall = NoCall
FetchIdle == fetchCall = [pc |-> "off"]
EdgeIdle == edge = [pc |-> "off"]
CallsIdle == LastFridayIdle /\ FetchIdle /\ EdgeIdle
QuoteIdle == quote = [pc |-> "idle"]

NoSnapshot == [date |-> -1]            \* null
NoReference == [date |-> -1]           \* null
NoResponse == [status |-> 0]
ServerIdle ==
    /\ wallClock = NoDate
    /\ currentSnapshot = NoSnapshot
    /\ weeklyReferenceSnapshot = NoReference
    /\ monthlyReferenceSnapshot = NoReference
    /\ builds = <<>>
    /\ reader = [pc |-> "off"]
    /\ lastResponse = NoResponse
    /\ lastBuilt = NoSnapshot

InitHistory ==
    /\ \E n \in StartLens, reading \in StartReadings :
          /\ historicalRecords = StartHistory(n, reading)
          /\ recordsBefore = StartHistory(n, reading)
    /\ stats = NoStats
    /\ lastCall = [op |-> "none"]
    /\ calls = 0
    /\ ExpiryIdle
    /\ AtmIdle
    /\ QuoteIdle
    /\ ServerIdle
    /\ CallsIdle

NextHistory ==
    \/ \E date \in CallDates, reading \in Readings :
          saveDailyRecord(date, reading[1], reading[2], reading[3])
    \/ calculateHistoricalStats

SpecHistory == InitHistory /\ [][NextHistory]_vars

(***************************************************************************)
(* Claims about the history, checked under SpecHistory                     *)
(***************************************************************************)
Saved == lastCall.op = "save"
DatesOf(records) == {records[i].date : i \in 1..Len(records)}
SavedRecord ==
    [date |-> lastCall.date, weeklySurprise |-> lastCall.weeklySurprise,
     monthlySurprise |-> lastCall.monthlySurprise, btcPrice |-> lastCall.btcPrice]
SavedNewDate == Saved /\ lastCall.date \notin DatesOf(recordsBefore)
SavedKnownDate == Saved /\ lastCall.date \in DatesOf(recordsBefore)

\* C1: after any sequence of saveDailyRecord calls the history never holds
\* more than 30 records.
C1_NeverMoreThan30 == Len(historicalRecords) <= 30

\* A call with a new date made on a full history left it full.
C1_Witness ==
    /\ SavedNewDate
    /\ Len(recordsBefore) = 30
    /\ Len(historicalRecords) = 30
    /\ calls = MaxCalls

\* C2: a save of a new date into a history of 30 removes exactly the front
\* record, keeps the other 29 in their order and puts the new record last;
\* a save into a history of fewer than 30 records evicts nothing.
C2_EvictsOldestOnly ==
    Saved =>
      /\ (Len(recordsBefore) = 30 /\ lastCall.date \notin DatesOf(recordsBefore)) =>
            /\ Len(historicalRecords) = 30
            /\ \A i \in 1..29 : historicalRecords[i] = recordsBefore[i + 1]
            /\ historicalRecords[30] = SavedRecord
            /\ recordsBefore[1].date \notin DatesOf(historicalRecords)
      /\ Len(recordsBefore) < 30 =>
            /\ DatesOf(recordsBefore) \subseteq DatesOf(historicalRecords)
            /\ Len(historicalRecords) >= Len(recordsBefore)

\* The front record of a full history has just been evicted by a new date.
C2_Witness ==
    /\ SavedNewDate
    /\ Len(recordsBefore) = 30
    /\ recordsBefore[1].date \notin DatesOf(historicalRecords)

\* C3: the history holds at most one record per date; a save of a date
\* already present leaves the count unchanged, and after it the one record
\* of that date carries the values of that call.
C3_OneRecordPerDate ==
    /\ Cardinality(DatesOf(historicalRecords)) = Len(historicalRecords)
    /\ SavedKnownDate =>
          /\ Len(historicalRecords) = Len(recordsBefore)
          /\ \A i \in 1..Len(historicalRecords) :
                historicalRecords[i].date = lastCall.date
                   => historicalRecords[i] = SavedRecord
          /\ lastCall.date \in DatesOf(historicalRecords)

\* A date already present was saved again with other values.
C3_Witness ==
    /\ SavedKnownDate
    /\ recordsBefore[FindIndex(recordsBefore, lastCall.date)] # SavedRecord
    /\ Len(recordsBefore) >= 2

\* C4 as stated: a save of a date already present replaces the record where
\* it stands; every other record keeps its index and its content.
C4_ReplacedInPlace ==
    SavedKnownDate =>
      /\ Len(historicalRecords) = Len(recordsBefore)
      /\ \A i \in 1..Len(recordsBefore) :
            IF recordsBefore[i].date = lastCall.date
            THEN historicalRecords[i] = SavedRecord
            ELSE historicalRecords[i] = recordsBefore[i]

\* C4 amended: a save of a date already present removes that record and
\* appends the new one at the end; the other records are unchanged and keep
\* their relative order, and the count is unchanged.
C4_ReplacedAtEnd ==
    SavedKnownDate =>
      LET k == FindIndex(recordsBefore, lastCall.date)
          n == Len(recordsBefore)
      IN  /\ Len(historicalRecords) = n
          /\ historicalRecords[n] = SavedRecord
          /\ \A i \in 1..(k - 1) : historicalRecords[i] = recordsBefore[i]
          /\ \A i \in k..(n - 1) : historicalRecords[i] = recordsBefore[i + 1]

\* A record that was not the last one was saved again and now is the last.
C4_Witness ==
    /\ SavedKnownDate
    /\ FindIndex(recordsBefore, lastCall.date) < Len(recordsBefore)
    /\ historicalRecords[Len(historicalRecords)].date = lastCall.date

StatsReturned == lastCall.op = "stats"
IsSentinel(s) ==
    /\ s.daysTracked = 0
    /\ s.weeklyTrend = "FLAT"
    /\ s.monthlyTrend = "FLAT"
    /\ s.weeklyAvgSurprise.num = 0
    /\ s.monthlyAvgSurprise.num = 0

\* C5: calculateHistoricalStats returns the sentinel exactly when the
\* history holds fewer than 3 records; with 3 or more records daysTracked is
\* the number of records held, between 3 and 30.
C5_SentinelBelow3 ==
    StatsReturned =>
      /\ IsSentinel(stats) <=> Len(historicalRecords) < 3
      /\ Len(historicalRecords) >= 3 =>
            /\ stats.daysTracked = Len(historicalRecords)
            /\ stats.daysTracked >= 3
            /\ stats.daysTracked <= 30

\* Statistics were returned for exactly three records.
C5_Witness ==
    /\ StatsReturned
    /\ Len(historicalRecords) = 3
    /\ stats.daysTracked = 3

\* Three times the difference (in hundredths) between the mean of the last
\* three and the mean of the three before them, read off the records.
WeeklyDiff3 ==
    LET n == Len(historicalRecords)
    IN  (historicalRecords[n].weeklySurprise + historicalRecords[n - 1].weeklySurprise
            + historicalRecords[n - 2].weeklySurprise)
        - (historicalRecords[n - 3].weeklySurprise + historicalRecords[n - 4].weeklySurprise
            + historicalRecords[n - 5].weeklySurprise)
MonthlyDiff3 ==
    LET n == Len(historicalRecords)
    IN  (historicalRecords[n].monthlySurprise + historicalRecords[n - 1].monthlySurprise
            + historicalRecords[n - 2].monthlySurprise)
        - (historicalRecords[n - 3].monthlySurprise + historicalRecords[n - 4].monthlySurprise
            + historicalRecords[n - 5].monthlySurprise)

\* C6: with 6 or more records each trend is decided by the last 6 records
\* alone: UP when the mean of the last 3 exceeds the mean of the 3 before by
\* more than 0.15 (3 * diff > 45 hundredths), DOWN when it falls short by
\* more than 0.15, FLAT otherwise, exactly 0.15 and -0.15 included.
C6_TrendFromLastSix ==
    (StatsReturned /\ Len(historicalRecords) >= 6) =>
      /\ stats.weeklyTrend = "UP" <=> WeeklyDiff3 > 45
      /\ stats.weeklyTrend = "DOWN" <=> WeeklyDiff3 < -45
      /\ stats.weeklyTrend = "FLAT" <=> (WeeklyDiff3 >= -45 /\ WeeklyDiff3 <= 45)
      /\ stats.monthlyTrend = "UP" <=> MonthlyDiff3 > 45
      /\ stats.monthlyTrend = "DOWN" <=> MonthlyDiff3 < -45
      /\ stats.monthlyTrend = "FLAT" <=> (MonthlyDiff3 >= -45 /\ MonthlyDiff3 <= 45)

\* The weekly difference is exactly 0.15 and the weekly trend is FLAT.
C6_Witness ==
    /\ StatsReturned
    /\ Len(historicalRecords) >= 6
    /\ WeeklyDiff3 = 45
    /\ stats.weeklyTrend = "FLAT"

\* C7: with 3, 4 or 5 records both trends are FLAT whatever the values.
C7_FlatBelowSix ==
    (StatsReturned /\ Len(historicalRecords) \in {3, 4, 5}) =>
      /\ stats.weeklyTrend = "FLAT"
      /\ stats.monthlyTrend = "FLAT"

\* Five records whose last value lies 0.45 above the first, and FLAT trends.
C7_Witness ==
    /\ StatsReturned
    /\ Len(historicalRecords) = 5
    /\ historicalRecords[5].weeklySurprise - historicalRecords[1].weeklySurprise >= 45
    /\ stats.weeklyTrend = "FLAT"
    /\ stats.daysTracked = 5

(***************************************************************************)
(* JavaScript Date in UTC                                                  *)
(***************************************************************************)
MsPerDay == 86400000
MsPerHour == 3600000

\* Day number of the civil date year-month-date, month in 1..12; linear in
\* date, so date 0 is the last day of the month before and date 32 runs
\* into the month after, as in ECMAScript's MakeDay.
DaysFromCivil(year, month, date) ==
    LET y == IF month <= 2 THEN year - 1 ELSE year
        era == y \div 400
        yoe == y - era * 400
        mp == IF month > 2 THEN month - 3 ELSE month + 9
        doy == (153 * mp + 2) \div 5 + date - 1
        doe == yoe * 365 + yoe \div 4 - yoe \div 100 + doy
    IN  era * 146097 + doe - 719468

\* The civil date of a day number; month is 0-based as in getUTCMonth.
CivilFromDays(day) ==
    LET z == day + 719468
        era == z \div 146097
        doe == z - era * 146097
        yoe == (doe - doe \div 1460 + doe \div 36524 - doe \div 146096) \div 365
        doy == doe - (365 * yoe + yoe \div 4 - yoe \div 100)
        mp == (5 * doy + 2) \div 153
        d == doy - (153 * mp + 2) \div 5 + 1
        m == IF mp < 10 THEN mp + 3 ELSE mp - 9
    IN  [year |-> IF m <= 2 THEN yoe + era * 400 + 1 ELSE yoe + era * 400,
         month |-> m - 1,
         date |-> d]

\* ECMAScript MakeDay(year, month, date) with a 0-based month that may lie
\* outside 0..11 and a date that may lie outside the month.
MakeDay(year, month, date) ==
    DaysFromCivil(year + month \div 12, (month % 12) + 1, 1) + date - 1

getUTCDay(d) == (d.day + 4) % 7        \* 1970-01-01 was a Thursday (4)
getUTCFullYear(d) == CivilFromDays(d.day).year
getUTCMonth(d) == CivilFromDays(d.day).month
getUTCDate(d) == CivilFromDays(d.day).date
setUTCDate(d, date) ==
    [day |-> MakeDay(getUTCFullYear(d), getUTCMonth(d), date), ms |-> d.ms]
setUTCMonth(d, month) ==
    [day |-> MakeDay(getUTCFullYear(d), month, getUTCDate(d)), ms |-> d.ms]
setUTCHours(d, hours, min, sec, ms) ==
    [day |-> d.day, ms |-> ((hours * 60 + min) * 60 + sec) * 1000 + ms]
DateUTC(year, month, date, hours) ==
    [day |-> MakeDay(year, month, date), ms |-> hours * MsPerHour]

\* a.getTime() >= b.getTime()
TimeGeq(a, b) == a.day > b.day \/ (a.day = b.day /\ a.ms >= b.ms)

(***************************************************************************)
(* ExpiryCalculator                                                        *)
(***************************************************************************)
\* getNextFriday rolling over only after 08:00 UTC has passed.
NextFridayRollAfter(now) ==
    LET daysUntilFriday == (5 - getUTCDay(now) + 7) % 7
        todayEightAM == setUTCHours(now, 8, 0, 0, 0)
        friday ==
            IF daysUntilFriday = 0
            THEN IF TimeGeq(now, todayEightAM) /\ now # todayEightAM
                 THEN setUTCDate(now, getUTCDate(now) + 7)
                 ELSE now
            ELSE setUTCDate(now, getUTCDate(now) + daysUntilFriday)
    IN  setUTCHours(friday, 8, 0, 0, 0)

\* getNextFriday, lines 81-103, for the clock reading now.
NextFriday(now) ==
    LET daysUntilFriday == (5 - getUTCDay(now) + 7) % 7
        todayEightAM == setUTCHours(now, 8, 0, 0, 0)
        friday ==
            IF daysUntilFriday = 0
            THEN IF TimeGeq(now, todayEightAM)
                 THEN setUTCDate(now, getUTCDate(now) + 7)
                 ELSE now
            ELSE setUTCDate(now, getUTCDate(now) + daysUntilFriday)
    IN  setUTCHours(friday, 8, 0, 0, 0)

\* getLastFridayOfMonth counting back from the last day of the month to the
\* Thursday before it instead of the Friday.
getLastFridayOfMonthFromThursday(year, month) ==
    LET lastDay == DateUTC(year, month + 1, 0, 8)
        dayOfWeek == getUTCDay(lastDay)
        daysToSubtract == (dayOfWeek + 3) % 7
    IN  setUTCHours(setUTCDate(lastDay, getUTCDate(lastDay) - daysToSubtract), 8, 0, 0, 0)

getLastFridayOfMonth(year, month) ==
    LET lastDay == DateUTC(year, month + 1, 0, 8)
        dayOfWeek == getUTCDay(lastDay)
        daysToSubtract == (dayOfWeek + 2) % 7
    IN  setUTCHours(setUTCDate(lastDay, getUTCDate(lastDay) - daysToSubtract),
                    8, 0, 0, 0)

\* getMonthlyExpiry keeping this month's expiry at the very instant it falls.
MonthlyExpiryKeepAtExpiry(now) ==
    LET thisMonthExpiry == getLastFridayOfMonth(getUTCFullYear(now), getUTCMonth(now))
    IN  IF TimeGeq(now, thisMonthExpiry) /\ now # thisMonthExpiry
        THEN getLastFridayOfMonth(getUTCFullYear(now), getUTCMonth(now) + 1)
        ELSE thisMonthExpiry

\* getMonthlyExpiry, lines 125-135, for the clock reading now.
MonthlyExpiry(now) ==
    LET thisMonthExpiry == getLastFridayOfMonth(getUTCFullYear(now), getUTCMonth(now))
    IN  IF TimeGeq(now, thisMonthExpiry)
        THEN getLastFridayOfMonth(getUTCFullYear(now), getUTCMonth(now) + 1)
        ELSE thisMonthExpiry

\* createDailySnapshot without the correction of lines 258-263.
FinalMonthlyExpiryUncorrected(weekly, monthly) == monthly

\* createDailySnapshot, lines 256-263: the monthly expiry after the check
\* for weekly = monthly.
FinalMonthlyExpiry(weekly, monthly) ==
    IF weekly = monthly
    THEN LET nextMonth == setUTCMonth(monthly, getUTCMonth(monthly) + 1)
         IN  getLastFridayOfMonth(getUTCFullYear(nextMonth), getUTCMonth(nextMonth))
    ELSE monthly

(***************************************************************************)
(* Bounds of the expiry model                                              *)
(***************************************************************************)
FirstDay == 19723       \* 2024-01-01
NumDays == 10227        \* 28 years: every weekday and leap-year alignment
MaxTicks == 1           \* milliseconds the clock may advance between reads

\* Times of day the clock is started at: midnight, around 08:00 UTC and the
\* last millisecond of the day.
TimesOfDay == {0, 8 * MsPerHour - 1, 8 * MsPerHour, 8 * MsPerHour + 1, MsPerDay - 1}

HistoryIdle ==
    /\ historicalRecords = <<>>
    /\ stats = NoStats
    /\ lastCall = [op |-> "none"]
    /\ recordsBefore = <<>>
    /\ calls = 0

InitExpiry ==
    /\ clock \in [day : FirstDay..(FirstDay + NumDays - 1), ms : TimesOfDay]
    /\ ticks = 0
    /\ pc = "start"
    /\ fridayNow = NoDate
    /\ nextFriday = NoDate
    /\ monthlyNow = NoDate
    /\ monthlyExpiry = NoDate
    /\ finalMonthlyExpiry = NoDate
    /\ HistoryIdle
    /\ AtmIdle
    /\ QuoteIdle
    /\ ServerIdle
    /\ CallsIdle

\* The clock advances by one millisecond between the two reads of
\* lines 250 and 251.
Tick ==
    /\ pc = "friday"
    /\ ticks < MaxTicks
    /\ clock' = IF clock.ms + 1 = MsPerDay
                THEN [day |-> clock.day + 1, ms |-> 0]
                ELSE [day |-> clock.day, ms |-> clock.ms + 1]
    /\ ticks' = ticks + 1
    /\ UNCHANGED <<pc, fridayNow, nextFriday, monthlyNow, monthlyExpiry,
                   finalMonthlyExpiry>>
    /\ UNCHANGED outsideExpiry

getNextFriday ==
    /\ pc = "start"
    /\ fridayNow' = clock
    /\ nextFriday' = NextFriday(clock)
    /\ pc' = "friday"
    /\ UNCHANGED <<clock, ticks, monthlyNow, monthlyExpiry, finalMonthlyExpiry>>
    /\ UNCHANGED outsideExpiry

getMonthlyExpiry ==
    /\ pc = "friday"
    /\ monthlyNow' = clock
    /\ monthlyExpiry' = MonthlyExpiry(clock)
    /\ pc' = "monthly"
    /\ UNCHANGED <<clock, ticks, fridayNow, nextFriday, finalMonthlyExpiry>>
    /\ UNCHANGED outsideExpiry

resolveFinalMonthlyExpiry ==
    /\ pc = "monthly"
    /\ finalMonthlyExpiry' = FinalMonthlyExpiry(nextFriday, monthlyExpiry)
    /\ pc' = "done"
    /\ UNCHANGED <<clock, ticks, fridayNow, nextFriday, monthlyNow, monthlyExpiry>>
    /\ UNCHANGED outsideExpiry

NextExpiry ==
    \/ getNextFriday
    \/ Tick
    \/ getMonthlyExpiry
    \/ resolveFinalMonthlyExpiry

SpecExpiry == InitExpiry /\ [][NextExpiry]_vars

(***************************************************************************)
(* Claims about the expiries, checked under SpecExpiry                     *)
(***************************************************************************)
\* a.getTime() > b.getTime()
Later(a, b) == a.day > b.day \/ (a.day = b.day /\ a.ms > b.ms)

\* The day number of the last Friday of a month, found by looking at every
\* day from `from` to `from + 92`: a Friday of that month whose next Friday
\* is not in that month.
LastFridayDay(year, month, from) ==
    CHOOSE d \in from..(from + 92) :
        /\ (d + 4) % 7 = 5
        /\ CivilFromDays(d).month = month
        /\ CivilFromDays(d).year = year
        /\ CivilFromDays(d + 7).month # month
LastFridayAtEight(year, month, from) ==
    [day |-> LastFridayDay(year, month, from), ms |-> 28800000]
FollowingYear(year, month) == IF month = 11 THEN year + 1 ELSE year
FollowingMonth(month) == IF month = 11 THEN 0 ELSE month + 1

\* C8: getNextFriday returns a Friday at exactly 08:00:00.000 UTC, strictly
\* later than now and at most 7 days after it: the same day on a Friday
\* before 08:00 UTC, one week later on a Friday at or after 08:00 UTC.
C8_NextFriday ==
    pc # "start" =>
      /\ (nextFriday.day + 4) % 7 = 5
      /\ nextFriday.ms = 28800000
      /\ Later(nextFriday, fridayNow)
      /\ \/ nextFriday.day - fridayNow.day < 7
         \/ nextFriday.day - fridayNow.day = 7 /\ nextFriday.ms <= fridayNow.ms
      /\ ((fridayNow.day + 4) % 7 = 5 /\ fridayNow.ms < 28800000)
            => nextFriday.day = fridayNow.day
      /\ ((fridayNow.day + 4) % 7 = 5 /\ fridayNow.ms >= 28800000)
            => nextFriday.day = fridayNow.day + 7

\* Read on a Friday at 08:00:00.000 exactly: the Friday one week later.
C8_Witness ==
    /\ pc # "start"
    /\ (fridayNow.day + 4) % 7 = 5
    /\ fridayNow.ms = 28800000
    /\ nextFriday = [day |-> fridayNow.day + 7, ms |-> 28800000]

\* C9: getMonthlyExpiry returns the last Friday 08:00 UTC of the current
\* UTC month when that is strictly later than now, otherwise the last Friday
\* 08:00 UTC of the following month (January of the next year in December);
\* the result is strictly later than now.
C9_MonthlyExpiry ==
    pc \in {"monthly", "done"} =>
      LET y == CivilFromDays(monthlyNow.day).year
          m == CivilFromDays(monthlyNow.day).month
          current == LastFridayAtEight(y, m, monthlyNow.day - 31)
          following == LastFridayAtEight(FollowingYear(y, m), FollowingMonth(m),
                                         monthlyNow.day)
      IN  /\ Later(current, monthlyNow) => monthlyExpiry = current
          /\ ~Later(current, monthlyNow) => monthlyExpiry = following
          /\ Later(monthlyExpiry, monthlyNow)

\* Read in December at the instant of its last Friday 08:00 UTC: the expiry
\* is in January of the next year.
C9_Witness ==
    /\ pc \in {"monthly", "done"}
    /\ CivilFromDays(monthlyNow.day).month = 11
    /\ (monthlyNow.day + 4) % 7 = 5
    /\ monthlyNow.ms = 28800000
    /\ CivilFromDays(monthlyExpiry.day).month = 0
    /\ CivilFromDays(monthlyExpiry.day).year = CivilFromDays(monthlyNow.day).year + 1

\* C10: whenever the weekly expiry equals the monthly expiry, the monthly
\* leg is resolved to the last Friday 08:00 UTC of the month that follows
\* the month of the coinciding expiry.
C10_CollisionFollowingMonth ==
    (pc = "done" /\ nextFriday = monthlyExpiry) =>
      LET y == CivilFromDays(monthlyExpiry.day).year
          m == CivilFromDays(monthlyExpiry.day).month
      IN  finalMonthlyExpiry =
             LastFridayAtEight(FollowingYear(y, m), FollowingMonth(m), monthlyExpiry.day)

\* C11: the final monthly expiry is never the weekly expiry, and whenever
\* the weekly expiry is the last Friday of the month current at the time of
\* the build, the final monthly expiry lies at least 14 days after it.
C11_MonthlyNeverWeekly ==
    pc = "done" =>
      /\ finalMonthlyExpiry # nextFriday
      /\ LET y == CivilFromDays(fridayNow.day).year
             m == CivilFromDays(fridayNow.day).month
         IN  nextFriday = LastFridayAtEight(y, m, fridayNow.day - 31)
                => /\ finalMonthlyExpiry.day - nextFriday.day >= 14
                   /\ finalMonthlyExpiry.ms = nextFriday.ms

\* The two expiries coincided and the monthly one was moved on.
C11_Witness ==
    /\ pc = "done"
    /\ nextFriday = monthlyExpiry
    /\ finalMonthlyExpiry.day - nextFriday.day >= 14

(***************************************************************************)
(* ATMSelector: findATMStrike of server-v3.ts and of api/current.ts        *)
(***************************************************************************)
\* Math.abs(x)
Abs(x) == IF x < 0 THEN -x ELSE x

\* Math.abs(a - b) in milliseconds for two timestamps; differences of two
\* days and more are reported as two days, which is above every tolerance
\* the code compares with and keeps the product inside the integers.
AbsDiffMs(a, b) ==
    IF Abs(a.day - b.day) >= 2 THEN 2 * MsPerDay
    ELSE Abs((a.day - b.day) * MsPerDay + (a.ms - b.ms))

NoOption == [instrument_name |-> 0]     \* null

\* The loop of lines 183-189 from position i on.
RECURSIVE ClosestFrom(_, _, _, _)
ClosestFrom(expiryOptions, i, closest, spotPrice) ==
    IF i > Len(expiryOptions) THEN closest
    ELSE IF Abs(expiryOptions[i].strike - spotPrice) < Abs(closest.strike - spotPrice)
         THEN ClosestFrom(expiryOptions, i + 1, expiryOptions[i], spotPrice)
         ELSE ClosestFrom(expiryOptions, i + 1, closest, spotPrice)

\* The loop with diff <= minDiff: the last of the closest options wins.
RECURSIVE ClosestLastFrom(_, _, _, _)
ClosestLastFrom(expiryOptions, i, closest, spotPrice) ==
    IF i > Len(expiryOptions) THEN closest
    ELSE IF Abs(expiryOptions[i].strike - spotPrice) <= Abs(closest.strike - spotPrice)
         THEN ClosestLastFrom(expiryOptions, i + 1, expiryOptions[i], spotPrice)
         ELSE ClosestLastFrom(expiryOptions, i + 1, closest, spotPrice)

\* findATMStrike keeping the last of several equally close options.
ATMStrikeLastWins(options, expiryTime, spotPrice) ==
    LET expiryOptions ==
            SelectSeq(options,
                LAMBDA opt : AbsDiffMs(opt.expiration_timestamp, expiryTime) < MsPerHour)
    IN  IF Len(expiryOptions) = 0 THEN NoOption
        ELSE ClosestLastFrom(expiryOptions, 1, expiryOptions[1], spotPrice)

\* findATMStrike of server-v3.ts, lines 167-192.
ATMStrike(options, expiryTime, spotPrice) ==
    LET expiryOptions ==
            SelectSeq(options,
                LAMBDA opt : AbsDiffMs(opt.expiration_timestamp, expiryTime) < MsPerHour)
    IN  IF Len(expiryOptions) = 0 THEN NoOption
        ELSE ClosestFrom(expiryOptions, 1, expiryOptions[1], spotPrice)

\* findATMStrike of api/current.ts, lines 142-158.
ATMStrikeExact(options, expiry, spotPrice) ==
    LET expiryOptions ==
            SelectSeq(options, LAMBDA opt : opt.expiration_timestamp = expiry)
    IN  IF Len(expiryOptions) = 0 THEN NoOption
        ELSE ClosestFrom(expiryOptions, 1, expiryOptions[1], spotPrice)

(***************************************************************************)
(* Bounds and inputs of the ATM model                                      *)
(***************************************************************************)
MaxChain == 3           \* options in the chain

\* The expiry looked for: Friday 2024-05-31 08:00 UTC.
AtmTarget == [day |-> 19874, ms |-> 8 * MsPerHour]

\* Expiries of the chain: the target, a full hour before it (outside the
\* tolerance), the last millisecond inside the tolerance.
ChainExpiries ==
    { AtmTarget,
      [day |-> AtmTarget.day, ms |-> AtmTarget.ms - MsPerHour],
      [day |-> AtmTarget.day, ms |-> AtmTarget.ms + MsPerHour - 1] }
ChainStrikes == {41000, 42000, 43000}
AtmSpots == {42000, 42500}

\* A chain whose instrument names are the positions 1, 2, ... in the chain.
ChainOf(quotes) ==
    [i \in 1..Len(quotes) |->
        [instrument_name |-> i, strike |-> quotes[i][1],
         expiration_timestamp |-> quotes[i][2]]]

\* The chains of exactly n options.
ChainsOf(n) == { ChainOf(q) : q \in [1..n -> ChainStrikes \X ChainExpiries] }

InitATM ==
    /\ \E n \in 0..MaxChain, spotPrice \in AtmSpots : \E options \in ChainsOf(n) :
          atm = [called |-> FALSE, options |-> options, expiryTime |-> AtmTarget,
                 spotPrice |-> spotPrice]
    /\ HistoryIdle
    /\ ExpiryIdle
    /\ QuoteIdle
    /\ ServerIdle
    /\ CallsIdle

findATMStrike ==
    /\ ~atm.called
    /\ atm' = [called |-> TRUE, variant |-> "server-v3", options |-> atm.options,
               expiryTime |-> atm.expiryTime, spotPrice |-> atm.spotPrice,
               result |-> ATMStrike(atm.options, atm.expiryTime, atm.spotPrice)]
    /\ UNCHANGED outsideATM

findATMStrikeEdge ==
    /\ ~atm.called
    /\ atm' = [called |-> TRUE, variant |-> "api/current", options |-> atm.options,
               expiryTime |-> atm.expiryTime, spotPrice |-> atm.spotPrice,
               result |-> ATMStrikeExact(atm.options, atm.expiryTime, atm.spotPrice)]
    /\ UNCHANGED outsideATM

NextATM == findATMStrike \/ findATMStrikeEdge

SpecATM == InitATM /\ [][NextATM]_vars

(***************************************************************************)
(* Claims about the ATM selection, checked under SpecATM                   *)
(***************************************************************************)
\* Less than one hour apart.
WithinAnHour(a, b) ==
    \/ a.day = b.day /\ a.ms - b.ms < 3600000 /\ b.ms - a.ms < 3600000
    \/ a.day = b.day + 1 /\ a.ms + 86400000 - b.ms < 3600000
    \/ b.day = a.day + 1 /\ b.ms + 86400000 - a.ms < 3600000

\* Positions of the chain whose option matches the target expiry.
Matching ==
    { i \in 1..Len(atm.options) :
        IF atm.variant = "server-v3"
        THEN WithinAnHour(atm.options[i].expiration_timestamp, atm.expiryTime)
        ELSE atm.options[i].expiration_timestamp = atm.expiryTime }
Distance(i) ==
    IF atm.options[i].strike >= atm.spotPrice
    THEN atm.options[i].strike - atm.spotPrice
    ELSE atm.spotPrice - atm.options[i].strike

\* C12: findATMStrike returns null when no option matches the target expiry
\* (within one hour in server-v3, exactly in api/current.ts); otherwise it
\* returns a matching option of minimal |strike - spot|, the first such in
\* chain order, and never an option that does not match.
C12_ClosestMatchingStrike ==
    atm.called =>
      IF Matching = {}
      THEN atm.result = NoOption
      ELSE \E i \in Matching :
              /\ atm.result = atm.options[i]
              /\ \A j \in Matching : Distance(i) <= Distance(j)
              /\ \A j \in Matching : Distance(j) = Distance(i) => i <= j

\* Two matching options are equally close, a closer one does not match, and
\* the first of the two was returned.
C12_Witness ==
    /\ atm.called
    /\ atm.variant = "server-v3"
    /\ \E i, j \in Matching :
          /\ i < j
          /\ Distance(i) = Distance(j)
          /\ atm.result = atm.options[i]
    /\ \E k \in (1..Len(atm.options)) \ Matching : Distance(k) = 0

(***************************************************************************)
(* OptionData and RealtimeComparison: getOptionData, calculateRealtime     *)
(*                                                                         *)
(* Implied volatilities of a ticker are whole percents.  atmIV and markIV  *)
(* are means of two of them and are held in half percents (twice the       *)
(* percent value).  Math.sqrt(365) is taken as 19.105, so that             *)
(* impliedDailyMove = spotPrice * (atmIV / 100) / Math.sqrt(365) is the    *)
(* integer spotPrice * atmIV[half percents] in units of 1/DailyScale of    *)
(* the price unit, DailyScale = 200 * 19.105.                              *)
(***************************************************************************)
DailyScale == 3821

\* ticker[name] || fallback: a field that is absent or zero gives the fallback.
OrElse(ticker, name, fallback) ==
    IF name \in DOMAIN ticker /\ ticker[name] # 0 THEN ticker[name] ELSE fallback

\* (expiry - now) / (1000 * 60 * 60), for instants on whole hours.
HoursBetween(now, expiry) ==
    (expiry.day - now.day) * 24 + (expiry.ms - now.ms) \div MsPerHour

\* getOptionData with the daily move taken over the time left to expiry.
OptionDataOverTerm(ticker, expiry, spotPrice, now) ==
    LET bidIV == OrElse(ticker, "bid_iv", 0)
        askIV == OrElse(ticker, "ask_iv", 0)
        atmIV == bidIV + askIV
        hoursToExpiry == HoursBetween(now, expiry)
    IN  [ expiryTimestamp |-> expiry,
          markIV |-> IF OrElse(ticker, "mark_iv", 0) # 0
                     THEN 2 * ticker.mark_iv ELSE bidIV + askIV,
          bidIV |-> bidIV,
          askIV |-> askIV,
          atmIV |-> atmIV,
          underlyingPrice |-> spotPrice,
          hoursToExpiry |-> hoursToExpiry,
          impliedDailyMove |-> (spotPrice * atmIV * 24) \div hoursToExpiry,
          ticker |-> ticker ]

\* getOptionData, lines 197-235, after the ticker has arrived.  impliedMove
\* and the two percentages are not modelled: impliedMove needs the square
\* root of the time to expiry and nothing reads them.  The field ticker
\* remembers the ticker the leg was built from.
OptionData(ticker, expiry, spotPrice, now) ==
    LET bidIV == OrElse(ticker, "bid_iv", 0)
        askIV == OrElse(ticker, "ask_iv", 0)
        markIV == IF OrElse(ticker, "mark_iv", 0) # 0
                  THEN 2 * ticker.mark_iv ELSE bidIV + askIV
        atmIV == bidIV + askIV
    IN  [ expiryTimestamp |-> expiry,
          markIV |-> markIV,
          bidIV |-> bidIV,
          askIV |-> askIV,
          atmIV |-> atmIV,
          underlyingPrice |-> spotPrice,
          hoursToExpiry |-> HoursBetween(now, expiry),
          impliedDailyMove |-> spotPrice * atmIV,
          ticker |-> ticker ]

\* The status with the thresholds themselves counted as high and low.
StatusOfInclusive(actualRange, impliedDailyMove) ==
    IF 10 * actualRange * DailyScale >= 13 * impliedDailyMove THEN "HIGH_VOL"
    ELSE IF 10 * actualRange * DailyScale <= 7 * impliedDailyMove THEN "LOW_VOL"
    ELSE "NORMAL"

\* Lines 348-358 and 363-371: ratio = actualRange / impliedDailyMove, then
\* ratio > 1.3, ratio < 0.7.  Both sides are multiplied by the implied move,
\* which is never negative; for an implied move of 0 the ratio is Infinity
\* (HIGH_VOL) when the range is positive and NaN (NORMAL) when it is 0, and
\* the products give the same.
StatusOf(actualRange, impliedDailyMove) ==
    IF 10 * actualRange * DailyScale > 13 * impliedDailyMove THEN "HIGH_VOL"
    ELSE IF 10 * actualRange * DailyScale < 7 * impliedDailyMove THEN "LOW_VOL"
    ELSE "NORMAL"

\* calculateRealtime, lines 331-388: what it decides from the day's range.
RealtimeComparison(snapshot, actualRange) ==
    [ actualRange |-> actualRange,
      weeklyStatus |-> StatusOf(actualRange, snapshot.weeklyOption.impliedDailyMove),
      monthlyStatus |-> StatusOf(actualRange, snapshot.monthlyOption.impliedDailyMove) ]

(***************************************************************************)
(* Inputs of the option data model                                         *)
(***************************************************************************)
\* A ticker field: absent (empty), or present with a value.
BidIVs == { <<>>, <<0>>, <<50>> }
AskIVs == { <<>>, <<50>>, <<52>> }
MarkIVs == { <<>>, <<49>> }

TickerOf(bid, ask, mark) ==
    LET names == (IF bid = <<>> THEN {} ELSE {"bid_iv"})
                   \cup (IF ask = <<>> THEN {} ELSE {"ask_iv"})
                   \cup (IF mark = <<>> THEN {} ELSE {"mark_iv"})
    IN  [ n \in names |->
            IF n = "bid_iv" THEN bid[1] ELSE IF n = "ask_iv" THEN ask[1] ELSE mark[1] ]
Tickers == { TickerOf(b, a, m) : b \in BidIVs, a \in AskIVs, m \in MarkIVs }

\* With spot 38210 and an ATM IV of 50 the implied daily move is 1000.
QuoteSpots == {38210, 42000}
QuoteExpiries == { AtmTarget, [day |-> AtmTarget.day + 28, ms |-> AtmTarget.ms] }
QuoteNows == { [day |-> AtmTarget.day - 4, ms |-> 0],
               [day |-> AtmTarget.day - 1, ms |-> 12 * MsPerHour] }
ActualRanges == {0, 420, 700, 1100, 1300, 1680}

InitQuote ==
    /\ quote = [pc |-> "weekly"]
    /\ HistoryIdle
    /\ ExpiryIdle
    /\ AtmIdle
    /\ ServerIdle
    /\ CallsIdle

\* createDailySnapshot line 277: the weekly leg.
getWeeklyOptionData ==
    /\ quote.pc = "weekly"
    /\ \E ticker \in Tickers, expiry \in QuoteExpiries,
          spotPrice \in QuoteSpots, now \in QuoteNows :
          quote' = [pc |-> "monthly",
                    weeklyOption |-> OptionData(ticker, expiry, spotPrice, now)]
    /\ UNCHANGED outsideQuote

\* createDailySnapshot line 286: the monthly leg.
getMonthlyOptionData ==
    /\ quote.pc = "monthly"
    /\ \E ticker \in Tickers, expiry \in QuoteExpiries,
          spotPrice \in QuoteSpots, now \in QuoteNows :
          quote' = [pc |-> "realtime",
                    weeklyOption |-> quote.weeklyOption,
                    monthlyOption |-> OptionData(ticker, expiry, spotPrice, now)]
    /\ UNCHANGED outsideQuote

\* calculateRealtime on a snapshot, whose two legs share the spot price.
calculateRealtime ==
    /\ quote.pc = "realtime"
    /\ quote.weeklyOption.underlyingPrice = quote.monthlyOption.underlyingPrice
    /\ \E actualRange \in ActualRanges :
          quote' = [pc |-> "done",
                    weeklyOption |-> quote.weeklyOption,
                    monthlyOption |-> quote.monthlyOption,
                    realtime |-> RealtimeComparison(quote, actualRange)]
    /\ UNCHANGED outsideQuote

NextQuote == getWeeklyOptionData \/ getMonthlyOptionData \/ calculateRealtime

SpecQuote == InitQuote /\ [][NextQuote]_vars

(***************************************************************************)
(* Claims about option data and statuses, checked under SpecQuote          *)
(***************************************************************************)
\* The surprise ratio actualRange / (move / DailyScale) against tenths / 10.
RatioAbove(actualRange, move, tenths) ==
    IF move = 0 THEN actualRange > 0
    ELSE 10 * DailyScale * actualRange > tenths * move
RatioBelow(actualRange, move, tenths) ==
    IF move = 0 THEN FALSE
    ELSE 10 * DailyScale * actualRange < tenths * move

StatusAsClaimed(status, actualRange, leg) ==
    /\ status = "HIGH_VOL" <=> RatioAbove(actualRange, leg.impliedDailyMove, 13)
    /\ status = "LOW_VOL" <=> RatioBelow(actualRange, leg.impliedDailyMove, 7)
    /\ status = "NORMAL" <=> /\ ~RatioAbove(actualRange, leg.impliedDailyMove, 13)
                             /\ ~RatioBelow(actualRange, leg.impliedDailyMove, 7)
    /\ (leg.underlyingPrice = 42000 /\ leg.atmIV = 2 * 50) =>
          /\ actualRange = 1680 => status = "HIGH_VOL"
          /\ actualRange = 420 => status = "LOW_VOL"
          /\ actualRange = 1100 => status = "NORMAL"

\* C13: each horizon's status is HIGH_VOL when actualRange divided by that
\* horizon's impliedDailyMove is strictly above 1.3, LOW_VOL when strictly
\* below 0.7 and NORMAL otherwise, each horizon by its own implied move; with
\* spot 42000 and ATM IV 50 a range of 1680 is HIGH_VOL, 420 LOW_VOL and
\* 1100 NORMAL.
C13_StatusByThresholds ==
    quote.pc = "done" =>
      /\ StatusAsClaimed(quote.realtime.weeklyStatus, quote.realtime.actualRange,
                         quote.weeklyOption)
      /\ StatusAsClaimed(quote.realtime.monthlyStatus, quote.realtime.actualRange,
                         quote.monthlyOption)

\* The weekly ratio is exactly 1.3 (range 1300 over an implied move of 1000)
\* and NORMAL, while the monthly leg of the same snapshot is HIGH_VOL.
C13_Witness ==
    /\ quote.pc = "done"
    /\ quote.realtime.actualRange = 1300
    /\ quote.weeklyOption.impliedDailyMove = 1000 * DailyScale
    /\ quote.realtime.weeklyStatus = "NORMAL"
    /\ quote.realtime.monthlyStatus = "HIGH_VOL"

\* The ticker supplies the field: present and not zero.
Supplies(ticker, name) == name \in DOMAIN ticker /\ ticker[name] # 0

AtmIVAsClaimed(leg) ==
    IF Supplies(leg.ticker, "bid_iv") /\ Supplies(leg.ticker, "ask_iv")
    THEN leg.atmIV = leg.ticker.bid_iv + leg.ticker.ask_iv
    ELSE leg.atmIV = leg.markIV

\* C19: the atmIV of a leg is (bidIV + askIV) / 2 when the ticker supplies
\* both a bid IV and an ask IV, and equals markIV when either is missing.
C19_AtmIVFallsBackToMark ==
    /\ quote.pc \in {"monthly", "realtime", "done"} => AtmIVAsClaimed(quote.weeklyOption)
    /\ quote.pc \in {"realtime", "done"} => AtmIVAsClaimed(quote.monthlyOption)

\* a's implied daily move is below b's whenever a is below b in one of spot
\* and atmIV and equal in the other, that other being positive.
IncreasingFrom(a, b) ==
    /\ (a.atmIV = b.atmIV /\ a.atmIV > 0 /\ a.underlyingPrice < b.underlyingPrice)
          => a.impliedDailyMove < b.impliedDailyMove
    /\ (a.underlyingPrice = b.underlyingPrice /\ a.underlyingPrice > 0 /\ a.atmIV < b.atmIV)
          => a.impliedDailyMove < b.impliedDailyMove

\* C20: impliedDailyMove is strictly increasing in spot for fixed positive
\* atmIV, strictly increasing in atmIV for fixed positive spot, and two legs
\* with the same spot and atmIV have the same impliedDailyMove whatever their
\* expiries and the times they were built at.
C20_DailyMoveMonotoneExpiryFree ==
    quote.pc \in {"realtime", "done"} =>
      /\ IncreasingFrom(quote.weeklyOption, quote.monthlyOption)
      /\ IncreasingFrom(quote.monthlyOption, quote.weeklyOption)
      /\ (/\ quote.weeklyOption.underlyingPrice = quote.monthlyOption.underlyingPrice
          /\ quote.weeklyOption.atmIV = quote.monthlyOption.atmIV)
            => quote.weeklyOption.impliedDailyMove = quote.monthlyOption.impliedDailyMove

\* Two legs of equal spot and positive atmIV that expire four weeks apart
\* and were built at different times.
C20_Witness ==
    /\ quote.pc = "realtime"
    /\ quote.weeklyOption.underlyingPrice = quote.monthlyOption.underlyingPrice
    /\ quote.weeklyOption.atmIV = quote.monthlyOption.atmIV
    /\ quote.weeklyOption.atmIV > 0
    /\ quote.weeklyOption.expiryTimestamp # quote.monthlyOption.expiryTimestamp
    /\ quote.weeklyOption.hoursToExpiry + 24 < quote.monthlyOption.hoursToExpiry
    /\ quote.weeklyOption.impliedDailyMove = quote.monthlyOption.impliedDailyMove

(***************************************************************************)
(* The server: initialize, createDailySnapshot, /api/refresh, /api/current *)
(*                                                                         *)
(* A date string (toISOString().split('T')[0]) is the UTC day number.      *)
(* Surprise ratios stored in the history are whole hundredths.             *)
(***************************************************************************)
\* new Date().toISOString().split('T')[0]
IsoDate(now) == now.day

\* actualRange / impliedDailyMove in hundredths, for a positive implied move.
RatioHundredths(actualRange, impliedDailyMove) ==
    (100 * actualRange * DailyScale) \div impliedDailyMove

\* createDailySnapshot up to line 271, run when the option chain has arrived:
\* the expiries, the two ATM options and the check that both exist.  `by` is
\* the call the locals belong to.
MarketArrived(by, spotPrice, options, now) ==
    LET nextFridayAt == NextFriday(now)
        finalMonthlyAt == FinalMonthlyExpiry(nextFridayAt, MonthlyExpiry(now))
        weeklyATM == ATMStrike(options, nextFridayAt, spotPrice)
        monthlyATM == ATMStrike(options, finalMonthlyAt, spotPrice)
    IN  IF weeklyATM = NoOption \/ monthlyATM = NoOption
        THEN [pc |-> "failed", error |-> "Could not find ATM options"]
        ELSE [pc |-> "tickers", by |-> by, spotPrice |-> spotPrice,
              weeklyATM |-> weeklyATM, monthlyATM |-> monthlyATM]

\* getOptionData for the option atmOption, called by the build `by`: the
\* fields of OptionData that do not depend on the time left to expiry.
Leg(by, atmOption, ticker, spotPrice, now) ==
    LET data == OptionData(ticker, atmOption.expiration_timestamp, spotPrice, now)
    IN  [ by |-> by,
          instrumentName |-> atmOption.instrument_name,
          strike |-> atmOption.strike,
          expiryTimestamp |-> data.expiryTimestamp,
          markIV |-> data.markIV, bidIV |-> data.bidIV, askIV |-> data.askIV,
          atmIV |-> data.atmIV,
          underlyingPrice |-> data.underlyingPrice,
          impliedDailyMove |-> data.impliedDailyMove ]

\* The returned object with the weekly leg read from a place all calls share.
DailySnapshotSharedLeg(locals, date) ==
    LET holders == { b \in DOMAIN builds : "weeklyOption" \in DOMAIN builds[b] }
        first == CHOOSE b \in holders : \A c \in holders : b <= c
    IN  [ date |-> date,
          timestamp |-> locals.today,
          weeklyOption |-> builds[first].weeklyOption,
          monthlyOption |-> locals.monthlyOption,
          spotPrice |-> locals.spotPrice,
          spotBy |-> locals.by ]

\* Lines 300-306: the object createDailySnapshot returns.  spotBy is the call
\* that fetched the spot price.
DailySnapshot(locals, date) ==
    [ date |-> date,
      timestamp |-> locals.today,
      weeklyOption |-> locals.weeklyOption,
      monthlyOption |-> locals.monthlyOption,
      spotPrice |-> locals.spotPrice,
      spotBy |-> locals.by ]

\* An assignment that clears the variable when the build threw.
AssignedOrCleared(current, outcome) ==
    IF outcome.ok THEN outcome.snapshot ELSE NoSnapshot

\* currentSnapshot = await createDailySnapshot(), lines 557 and 614: the
\* assignment happens only when the call returned.
Assigned(current, outcome) ==
    IF outcome.ok THEN outcome.snapshot ELSE current

\* The reference of a snapshot, lines 403-408 and 417-422.
ReferenceOf(snapshot) ==
    [ date |-> snapshot.date,
      weeklyImpliedDaily |-> snapshot.weeklyOption.impliedDailyMove,
      monthlyImpliedDaily |-> snapshot.monthlyOption.impliedDailyMove,
      btcPrice |-> snapshot.spotPrice ]

\* The weekly reference latched again on every call made on a Friday.
UpdatedWeeklyEveryCall(reference, snapshot, now) ==
    IF getUTCDay(now) = 5 THEN ReferenceOf(snapshot) ELSE reference

\* updateReferenceSnapshots, lines 399-410: the weekly reference after it.
UpdatedWeekly(reference, snapshot, now) ==
    IF getUTCDay(now) = 5
    THEN IF reference = NoReference \/ reference.date # snapshot.date
         THEN ReferenceOf(snapshot)
         ELSE reference
    ELSE reference

\* updateReferenceSnapshots, lines 413-424: the monthly reference after it.
UpdatedMonthly(reference, snapshot, now) ==
    IF getUTCDate(now) = 1
    THEN IF reference = NoReference \/ reference.date # snapshot.date
         THEN ReferenceOf(snapshot)
         ELSE reference
    ELSE reference

\* A response that passes the upstream failure on.
UpstreamErrorResponse == [status |-> 500, error |-> "fetch failed"]

\* Lines 584-589.
NotReadyResponse == [status |-> 503, error |-> "Not ready"]

(***************************************************************************)
(* Bounds and inputs of the server model                                   *)
(***************************************************************************)
MaxRefreshes == 1       \* /api/refresh requests, served one after another
MaxReads == 2           \* /api/current requests
BackfillDays == 1       \* days initialize backfills (7 in the source)

\* The createDailySnapshot calls in progress: 0 is the one of initialize, 1
\* the one of /api/refresh.  A refresh request arrives when the one before it
\* has been answered, so two builds can overlap.  The field `by` of a call
\* numbers the builds: 0 for initialize, n for the n-th refresh request.
Builders == 0..1

\* Friday 2024-05-31; the next day is the 1st of June.  The clock shows the
\* last millisecond of the Friday or the first of the Saturday.
ServerFriday == AtmTarget.day
ServerInstants ==
    { [day |-> ServerFriday, ms |-> MsPerDay - 1],
      [day |-> ServerFriday + 1, ms |-> 0] }

\* Contracts the exchange lists: Fridays at 08:00 UTC.
ExpiryOn(day) == [day |-> day, ms |-> 8 * MsPerHour]
WeeklyQuotes ==
    << <<38000, ExpiryOn(ServerFriday)>>, <<42000, ExpiryOn(ServerFriday)>>,
       <<42000, ExpiryOn(ServerFriday + 7)>> >>
MonthlyQuotes ==
    << <<42000, ExpiryOn(ServerFriday + 28)>>, <<42000, ExpiryOn(ServerFriday + 56)>> >>
UpstreamChains ==
    { ChainOf(WeeklyQuotes \o MonthlyQuotes), ChainOf(WeeklyQuotes), ChainOf(MonthlyQuotes) }

ServerSpots == {38210, 42000}
\* Tickers with both sides quoted.
ServerTickers == { [bid_iv |-> 50, ask_iv |-> 50, mark_iv |-> 49] }
ServerRanges == {1100}
IndexPrices == {42000}
BackfillKlines == { [open |-> 42000, range |-> 1100] }

InitServer ==
    /\ wallClock \in ServerInstants
    /\ currentSnapshot = NoSnapshot
    /\ weeklyReferenceSnapshot = NoReference
    /\ monthlyReferenceSnapshot = NoReference
    /\ \E klines \in BOOLEAN :
          builds = [b \in Builders |->
                      IF b = 0
                      THEN [pc |-> "backfill", by |-> 0, i |-> BackfillDays,
                            now |-> wallClock, klines |-> klines]
                      ELSE [pc |-> "idle", by |-> 0]]
    /\ reader = [pc |-> "idle", served |-> 0, failed |-> {}]
    /\ lastResponse = NoResponse
    /\ lastBuilt = NoSnapshot
    /\ HistoryIdle
    /\ ExpiryIdle
    /\ AtmIdle
    /\ QuoteIdle
    /\ CallsIdle

\* The clock moves on between any two steps.
clockAdvances ==
    /\ \E t \in ServerInstants : Later(t, wallClock) /\ wallClock' = t
    /\ UNCHANGED <<currentSnapshot, weeklyReferenceSnapshot, monthlyReferenceSnapshot,
                   builds, reader, lastResponse, lastBuilt, histVars, outsideServer>>

\* backfillHistoricalData, lines 508-544: one round of the loop, for the day
\* i days before the `now` of line 504; after the last round initialize calls
\* createDailySnapshot.  Without data (an empty answer, or a failed fetch,
\* which the loop catches) nothing is saved; the price feed either has the
\* klines of all the days or of none.
backfillDay ==
    /\ builds[0].pc = "backfill"
    /\ IF builds[0].klines
       THEN \E kline \in BackfillKlines :
              historicalRecords' =
                  SaveRecord(historicalRecords, IsoDate(builds[0].now) - builds[0].i,
                             RatioHundredths(kline.range, kline.open * 2 * 50),
                             RatioHundredths(kline.range, kline.open * 2 * 50),
                             kline.open)
       ELSE UNCHANGED historicalRecords
    /\ builds' = [builds EXCEPT ![0] =
                    IF builds[0].i > 1
                    THEN [pc |-> "backfill", by |-> 0, i |-> builds[0].i - 1,
                          now |-> builds[0].now, klines |-> builds[0].klines]
                    ELSE [pc |-> "market", by |-> 0]]
    /\ UNCHANGED <<wallClock, currentSnapshot, weeklyReferenceSnapshot,
                   monthlyReferenceSnapshot, reader, lastResponse, lastBuilt,
                   stats, outsideServer>>

\* /api/refresh, line 614: the request arrives and calls createDailySnapshot.
refreshRequest(r) ==
    /\ r > 0
    /\ builds[r].pc \in {"idle", "returned", "failed"}
    /\ builds[r].by < MaxRefreshes
    /\ builds' = [builds EXCEPT ![r] = [pc |-> "market", by |-> builds[r].by + 1]]
    /\ UNCHANGED <<wallClock, currentSnapshot, weeklyReferenceSnapshot,
                   monthlyReferenceSnapshot, reader, lastResponse, lastBuilt,
                   histVars, outsideServer>>

\* createDailySnapshot throws in the call b: initialize rejects (line 633
\* logs it), /api/refresh answers 500 with the error (lines 616-622).
buildThrows(b, error) ==
    /\ builds' = [builds EXCEPT ![b] = [pc |-> "failed", by |-> builds[b].by, error |-> error]]
    /\ currentSnapshot' = Assigned(currentSnapshot, [ok |-> FALSE, error |-> error])
    /\ UNCHANGED <<wallClock, weeklyReferenceSnapshot, monthlyReferenceSnapshot,
                   reader, lastResponse, lastBuilt, histVars, outsideServer>>

\* An upstream fetch of the call b fails: lines 143, 152 or 161.
fetchFails(b) ==
    /\ builds[b].pc \in {"market", "tickers"}
    /\ buildThrows(b, "fetch failed")

\* Lines 243-271: the spot price and the option chain have arrived.
marketArrives(b) ==
    /\ builds[b].pc = "market"
    /\ \E spotPrice \in ServerSpots, options \in UpstreamChains :
          LET next == MarketArrived(builds[b].by, spotPrice, options, wallClock)
          IN  IF next.pc = "failed"
              THEN buildThrows(b, next.error)
              ELSE /\ builds' = [builds EXCEPT ![b] = next]
                   /\ UNCHANGED <<wallClock, currentSnapshot, weeklyReferenceSnapshot,
                                  monthlyReferenceSnapshot, reader, lastResponse,
                                  lastBuilt, histVars, outsideServer>>

\* Lines 277-298: the weekly ticker has arrived and the weekly leg is built,
\* the pause is over, the monthly ticker has arrived and the monthly leg is
\* built, and `today` is read and set to 00:00 UTC.  The steps are taken
\* together because none but the last reads or writes anything another
\* request can see.
tickersArrive(b) ==
    /\ builds[b].pc = "tickers"
    /\ \E weeklyTicker \in ServerTickers, monthlyTicker \in ServerTickers :
          builds' = [builds EXCEPT ![b] =
              [pc |-> "stamped", by |-> builds[b].by, spotPrice |-> builds[b].spotPrice,
               weeklyOption |-> Leg(builds[b].by, builds[b].weeklyATM, weeklyTicker,
                                    builds[b].spotPrice, wallClock),
               monthlyOption |-> Leg(builds[b].by, builds[b].monthlyATM, monthlyTicker,
                                     builds[b].spotPrice, wallClock),
               today |-> setUTCHours(wallClock, 0, 0, 0, 0)]]
    /\ UNCHANGED <<wallClock, currentSnapshot, weeklyReferenceSnapshot,
                   monthlyReferenceSnapshot, reader, lastResponse, lastBuilt,
                   histVars, outsideServer>>

\* snapshotReturns latching the new snapshot as the weekly reference as well.
snapshotReturnsLatching(b) ==
    /\ builds[b].pc = "stamped"
    /\ LET snapshot == DailySnapshot(builds[b], IsoDate(wallClock))
       IN  /\ currentSnapshot' = Assigned(currentSnapshot, [ok |-> TRUE, snapshot |-> snapshot])
           /\ lastBuilt' = snapshot
           /\ weeklyReferenceSnapshot' = ReferenceOf(snapshot)
    /\ builds' = [builds EXCEPT ![b] = [pc |-> "returned", by |-> builds[b].by]]
    /\ UNCHANGED <<wallClock, monthlyReferenceSnapshot,
                   reader, lastResponse, histVars, outsideServer>>

\* Lines 300-306, then line 557 or lines 614-615: the clock is read again for
\* the date, the snapshot is returned and assigned to currentSnapshot;
\* /api/refresh answers { success: true }.
snapshotReturns(b) ==
    /\ builds[b].pc = "stamped"
    /\ LET snapshot == DailySnapshot(builds[b], IsoDate(wallClock))
       IN  /\ currentSnapshot' = Assigned(currentSnapshot, [ok |-> TRUE, snapshot |-> snapshot])
           /\ lastBuilt' = snapshot
    /\ builds' = [builds EXCEPT ![b] = [pc |-> "returned", by |-> builds[b].by]]
    /\ UNCHANGED <<wallClock, weeklyReferenceSnapshot, monthlyReferenceSnapshot,
                   reader, lastResponse, histVars, outsideServer>>

\* The reader once its request is answered: failed is the set of builds that
\* had failed by then.
Answered ==
    [ pc |-> "idle", served |-> reader.served + 1,
      failed |-> { b \in Builders : builds[b].pc = "failed" } ]

\* /api/current, lines 583-592: the request arrives.  Without a snapshot it
\* is answered at once; otherwise the references are updated and
\* calculateRealtime starts its fetches.
currentRequest ==
    /\ reader.pc = "idle"
    /\ reader.served < MaxReads
    /\ IF currentSnapshot = NoSnapshot
       THEN /\ lastResponse' = NotReadyResponse
            /\ reader' = Answered
            /\ UNCHANGED <<weeklyReferenceSnapshot, monthlyReferenceSnapshot>>
       ELSE /\ weeklyReferenceSnapshot' =
                  UpdatedWeekly(weeklyReferenceSnapshot, currentSnapshot, wallClock)
            /\ monthlyReferenceSnapshot' =
                  UpdatedMonthly(monthlyReferenceSnapshot, currentSnapshot, wallClock)
            /\ reader' = [pc |-> "realtime", served |-> reader.served,
                          failed |-> reader.failed, snapshot |-> currentSnapshot]
            /\ UNCHANGED lastResponse
    /\ UNCHANGED <<wallClock, currentSnapshot, builds, lastBuilt, histVars, outsideServer>>

\* getTodayHighLow, lines 313-314: the start of the day whose kline is asked
\* for, from the clock at the time of the call.
TodayStart(now) == setUTCHours(now, 0, 0, 0, 0)

\* Lines 592-610: calculateRealtime returns for the snapshot it was called
\* with, the day's record is saved under the date of currentSnapshot and the
\* response is sent with currentSnapshot.  Of the realtime comparison only
\* the day its high and low belong to is kept; the stats are not kept.
realtimeArrives ==
    /\ reader.pc = "realtime"
    /\ \E currentPrice \in IndexPrices, actualRange \in ServerRanges :
          historicalRecords' =
              SaveRecord(historicalRecords, currentSnapshot.date,
                         RatioHundredths(actualRange,
                                         reader.snapshot.weeklyOption.impliedDailyMove),
                         RatioHundredths(actualRange,
                                         reader.snapshot.monthlyOption.impliedDailyMove),
                         currentPrice)
    /\ lastResponse' = [status |-> 200, snapshot |-> currentSnapshot,
                        rangeDay |-> TodayStart(wallClock).day]
    /\ reader' = Answered
    /\ UNCHANGED <<wallClock, currentSnapshot, weeklyReferenceSnapshot,
                   monthlyReferenceSnapshot, builds, lastBuilt, stats, outsideServer>>

\* A fetch of calculateRealtime fails (lines 141-143 or 317-320): the
\* handler throws and the request ends with an error.
realtimeFails ==
    /\ reader.pc = "realtime"
    /\ lastResponse' = [status |-> 500, error |-> "fetch failed"]
    /\ reader' = Answered
    /\ UNCHANGED <<wallClock, currentSnapshot, weeklyReferenceSnapshot,
                   monthlyReferenceSnapshot, builds, lastBuilt, histVars, outsideServer>>

NextServer ==
    \/ clockAdvances
    \/ backfillDay
    \/ \E r \in Builders : refreshRequest(r)
    \/ \E b \in Builders : fetchFails(b)
    \/ \E b \in Builders : marketArrives(b)
    \/ \E b \in Builders : tickersArrive(b)
    \/ \E b \in Builders : snapshotReturns(b)
    \/ currentRequest
    \/ realtimeArrives
    \/ realtimeFails

SpecServer == InitServer /\ [][NextServer]_vars

(***************************************************************************)
(* Claims about the server, checked under SpecServer                       *)
(***************************************************************************)
\* Both legs are there, each built from an option of the chain.
TwoLegs(snapshot) ==
    /\ {"weeklyOption", "monthlyOption", "spotPrice"} \subseteq DOMAIN snapshot
    /\ snapshot.weeklyOption.instrumentName >= 1
    /\ snapshot.monthlyOption.instrumentName >= 1

\* The build b takes a step.
StepOf(b) == builds'[b] # builds[b]

\* C14: a snapshot build that fails, for a missing weekly or monthly ATM
\* contract or a failed fetch, leaves currentSnapshot as it was: only the
\* step in which a build returns changes it, /api/current answers with the
\* snapshot published last, and no snapshot lacking a leg is ever published.
C14_FailedBuildKeepsSnapshot ==
    /\ [](currentSnapshot = lastBuilt)
    /\ [](currentSnapshot # NoSnapshot => TwoLegs(currentSnapshot))
    /\ [][\A b \in Builders :
            (StepOf(b) /\ builds'[b].pc # "returned") => currentSnapshot' = currentSnapshot]_vars
    /\ [][(lastResponse' # lastResponse /\ "snapshot" \in DOMAIN lastResponse')
            => lastResponse'.snapshot = lastBuilt]_vars

\* A refresh failed for want of an ATM contract while a snapshot was
\* published, and a later /api/current was answered with that snapshot.
C14_Witness ==
    /\ \E r \in Builders :
          /\ r > 0
          /\ builds[r].pc = "failed"
          /\ builds[r].error = "Could not find ATM options"
          /\ r \in reader.failed
    /\ currentSnapshot # NoSnapshot
    /\ reader.pc = "idle"
    /\ "snapshot" \in DOMAIN lastResponse
    /\ lastResponse.snapshot = currentSnapshot

\* Spot price and both legs come from one createDailySnapshot call.
OneBuild(snapshot) ==
    /\ snapshot.weeklyOption.by = snapshot.spotBy
    /\ snapshot.monthlyOption.by = snapshot.spotBy

\* C15: under any interleaving of builds and reads, every currentSnapshot a
\* reader can observe has its spotPrice, weeklyOption and monthlyOption from
\* one and the same build.
C15_SnapshotFromOneBuild ==
    /\ currentSnapshot # NoSnapshot => OneBuild(currentSnapshot)
    /\ reader.pc = "realtime" => OneBuild(reader.snapshot)
    /\ "snapshot" \in DOMAIN lastResponse => OneBuild(lastResponse.snapshot)

\* A reader observes the snapshot of a refresh that overtook the build of
\* initialize, which holds a weekly leg of its own and is still running.
C15_Witness ==
    /\ reader.pc = "realtime"
    /\ reader.snapshot = currentSnapshot
    /\ currentSnapshot.spotBy > 0
    /\ builds[0].pc = "stamped"
    /\ builds[0].weeklyOption.impliedDailyMove # currentSnapshot.weeklyOption.impliedDailyMove

\* C16: until a snapshot build has succeeded, also after the build of
\* initialize has failed, every /api/current request is answered with the
\* 503 'Not ready' response, and leaves the history and both reference
\* snapshots unchanged.
C16_NotReadyUntilBuilt ==
    [][(reader'.served # reader.served /\ lastBuilt = NoSnapshot)
         => /\ lastResponse'.status = 503
            /\ lastResponse'.error = "Not ready"
            /\ historicalRecords' = historicalRecords
            /\ weeklyReferenceSnapshot' = weeklyReferenceSnapshot
            /\ monthlyReferenceSnapshot' = monthlyReferenceSnapshot]_vars

\* The build of initialize had failed after a day was backfilled, no build
\* had succeeded, and a request was answered 'Not ready'.
C16_Witness ==
    /\ reader.pc = "idle"
    /\ reader.served > 0
    /\ 0 \in reader.failed
    /\ lastBuilt = NoSnapshot
    /\ lastResponse.status = 503
    /\ Len(historicalRecords) > 0

\* C17: updateReferenceSnapshots changes the weekly reference only on a
\* Friday when no weekly reference with the snapshot's date is latched, and
\* the monthly reference only on the 1st of a month when no monthly reference
\* with the snapshot's date is latched; a second call on the same Friday with
\* the same snapshot date leaves the weekly reference as it is.
C17_ReferencesLatchOnce ==
    [][/\ weeklyReferenceSnapshot' # weeklyReferenceSnapshot
            => /\ (wallClock.day + 4) % 7 = 5
               /\ weeklyReferenceSnapshot.date # currentSnapshot.date
               /\ weeklyReferenceSnapshot'.date = currentSnapshot.date
               /\ weeklyReferenceSnapshot'.btcPrice = currentSnapshot.spotPrice
       /\ monthlyReferenceSnapshot' # monthlyReferenceSnapshot
            => /\ CivilFromDays(wallClock.day).date = 1
               /\ monthlyReferenceSnapshot.date # currentSnapshot.date
               /\ monthlyReferenceSnapshot'.date = currentSnapshot.date
               /\ monthlyReferenceSnapshot'.btcPrice = currentSnapshot.spotPrice]_vars

\* A call found the weekly reference latched for the snapshot's date, with
\* the price of an earlier build, and left it; the clock is still on the
\* Friday, so the call was made on it.
C17_Witness ==
    /\ reader.pc = "realtime"
    /\ (wallClock.day + 4) % 7 = 5
    /\ reader.snapshot = currentSnapshot
    /\ weeklyReferenceSnapshot.date = currentSnapshot.date
    /\ weeklyReferenceSnapshot.btcPrice # currentSnapshot.spotPrice
    /\ monthlyReferenceSnapshot = NoReference

\* C18: every snapshot returned by createDailySnapshot has timestamp equal to
\* 00:00:00.000 UTC of the day named by its date, however the clock advances
\* during the build.
C18_TimestampIsMidnightOfDate ==
    lastBuilt # NoSnapshot => lastBuilt.timestamp = [day |-> lastBuilt.date, ms |-> 0]

\* ---------------------------------------------------------------------------
\* getLastFridayOfMonth as a function of its two arguments
\* ---------------------------------------------------------------------------

\* The years and month indexes the function is applied to.  Index 12 is the
\* value getMonthlyExpiry passes after December (month + 1 without a wrap).
FirstYear == 2020
NumYears == 12
LastFridayYears == FirstYear..(FirstYear + NumYears - 1)
MonthIndexes == 0..12

InitLastFriday ==
    /\ \E year \in LastFridayYears, month \in MonthIndexes :
           lastFridayCall = [called |-> FALSE, year |-> year, month |-> month]
    /\ FetchIdle
    /\ EdgeIdle
    /\ HistoryIdle
    /\ ExpiryIdle
    /\ AtmIdle
    /\ QuoteIdle
    /\ ServerIdle

outsideLastFriday == <<histVars, expiryVars, atm, quote, serverVars, fetchCall, edge>>

callLastFridayOfMonth ==
    /\ ~lastFridayCall.called
    /\ lastFridayCall' =
           [called |-> TRUE,
            year |-> lastFridayCall.year,
            month |-> lastFridayCall.month,
            result |-> getLastFridayOfMonth(lastFridayCall.year, lastFridayCall.month)]
    /\ UNCHANGED outsideLastFriday

NextLastFriday == callLastFridayOfMonth

SpecLastFriday == InitLastFriday /\ [][NextLastFriday]_vars

\* The calendar month a (year, month index) pair denotes.
DenotedYear(year, month) == IF month = 12 THEN year + 1 ELSE year
DenotedMonth(month) == IF month = 12 THEN 0 ELSE month

\* C21: for every year and month, getLastFridayOfMonth(year, month) is a
\* Friday at 08:00 UTC lying in that month, and the day a week later lies
\* outside it (so it is within the last 7 days and no later Friday is in the
\* month); month index 12 denotes January of the following year.
C21_LastFridayOfTheMonth ==
    lastFridayCall.called =>
        LET result == lastFridayCall.result
            civil == CivilFromDays(result.day)
            weekLater == CivilFromDays(result.day + 7)
        IN  /\ (result.day + 4) % 7 = 5
            /\ result.ms = 8 * 3600000
            /\ civil.year = DenotedYear(lastFridayCall.year, lastFridayCall.month)
            /\ civil.month = DenotedMonth(lastFridayCall.month)
            /\ weekLater.month # civil.month
            /\ \A later \in (result.day + 1)..(result.day + 31) :
                   (later + 4) % 7 = 5 => CivilFromDays(later).month # civil.month

\* The function was called with month index 12 and returned a day of January
\* of the following year.
C21_Witness ==
    /\ lastFridayCall.called
    /\ lastFridayCall.month = 12
    /\ CivilFromDays(lastFridayCall.result.day).month = 0
    /\ CivilFromDays(lastFridayCall.result.day).year = lastFridayCall.year + 1

\* The slot that serves /api/refresh.
RefreshSlot == 1

\* C22: every step of an /api/refresh request (the request arriving, each
\* fetch of its createDailySnapshot arriving or failing, the snapshot being
\* returned and assigned) leaves the history records and both reference
\* snapshots as they were; if it changes currentSnapshot, it changes it to
\* the snapshot that build returned.
C22_RefreshOnlyReplacesSnapshot ==
    [][builds'[RefreshSlot] # builds[RefreshSlot]
         => /\ historicalRecords' = historicalRecords
            /\ weeklyReferenceSnapshot' = weeklyReferenceSnapshot
            /\ monthlyReferenceSnapshot' = monthlyReferenceSnapshot
            /\ currentSnapshot' # currentSnapshot
                 => currentSnapshot' = lastBuilt' /\ lastBuilt' # lastBuilt]_vars

\* A refresh has replaced the snapshot after a record was saved and the
\* weekly reference was latched from the snapshot before it, and both are
\* still there.
C22_Witness ==
    /\ builds[RefreshSlot].pc = "returned"
    /\ currentSnapshot.spotBy = 1
    /\ Len(historicalRecords) > 0
    /\ weeklyReferenceSnapshot # NoReference
    /\ weeklyReferenceSnapshot.btcPrice # currentSnapshot.spotPrice

\* ---------------------------------------------------------------------------
\* api/current.ts: fetchWithTimeout
\* ---------------------------------------------------------------------------

\* Timeouts in seconds: the default of line 68 and the one getBTCOptions
\* passes at line 88.
DefaultTimeout == 5
OptionsTimeout == 8
FetchTimeouts == {DefaultTimeout, OptionsTimeout}

\* Seconds the clock is followed for, and the parts a body arrives in.
MaxElapsed == 9
MaxChunks == 2

\* Lines 68-71: the controller is created, the timer is armed and fetch is
\* called with the controller's signal.
InitFetch ==
    /\ \E timeout \in FetchTimeouts, chunks \in 1..MaxChunks, json \in BOOLEAN :
          fetchCall = [pc |-> "fetching", timeout |-> timeout, timer |-> "armed",
                       aborted |-> FALSE, elapsed |-> 0,
                       chunks |-> chunks, received |-> 0, json |-> json]
    /\ LastFridayIdle
    /\ EdgeIdle
    /\ HistoryIdle
    /\ ExpiryIdle
    /\ AtmIdle
    /\ QuoteIdle
    /\ ServerIdle

outsideFetch == <<histVars, expiryVars, atm, quote, serverVars, lastFridayCall, edge>>

\* A second passes.  An armed timer that is due fires before more time passes.
secondPasses ==
    /\ fetchCall.elapsed < MaxElapsed
    /\ ~(fetchCall.timer = "armed" /\ fetchCall.elapsed >= fetchCall.timeout)
    /\ fetchCall' = [fetchCall EXCEPT !.elapsed = @ + 1]
    /\ UNCHANGED outsideFetch

\* Line 70: the timer callback runs and aborts the controller.
timerFires ==
    /\ fetchCall.timer = "armed"
    /\ fetchCall.elapsed >= fetchCall.timeout
    /\ fetchCall' = [fetchCall EXCEPT !.timer = "fired", !.aborted = TRUE]
    /\ UNCHANGED outsideFetch

\* Lines 72, 76-78: fetch rejects because its signal was aborted; the catch
\* block clears the timer and rethrows.
fetchAborted ==
    /\ fetchCall.pc = "fetching"
    /\ fetchCall.aborted
    /\ fetchCall' = [fetchCall EXCEPT !.pc = "rejected"]
    /\ UNCHANGED outsideFetch

\* Lines 72, 76-78: fetch rejects with a network error.
fetchRejects ==
    /\ fetchCall.pc = "fetching"
    /\ ~fetchCall.aborted
    /\ fetchCall' = [fetchCall EXCEPT !.pc = "rejected", !.timer = "cleared"]
    /\ UNCHANGED outsideFetch

\* Lines 72-74: the response headers arrive, fetch resolves, the timer is
\* cleared and response.json() starts reading the body.
HeadersArrived(call) == [call EXCEPT !.pc = "reading", !.timer = "cleared"]

headersArrive ==
    /\ fetchCall.pc = "fetching"
    /\ ~fetchCall.aborted
    /\ fetchCall' = HeadersArrived(fetchCall)
    /\ UNCHANGED outsideFetch

\* A part of the body arrives.
chunkArrives ==
    /\ fetchCall.pc = "reading"
    /\ ~fetchCall.aborted
    /\ fetchCall.received < fetchCall.chunks
    /\ fetchCall' = [fetchCall EXCEPT !.received = @ + 1]
    /\ UNCHANGED outsideFetch

\* Line 74: the body is complete; response.json() resolves with the parsed
\* body, or rejects when it is not JSON and the catch block rethrows.
bodyRead ==
    /\ fetchCall.pc = "reading"
    /\ ~fetchCall.aborted
    /\ fetchCall.received = fetchCall.chunks
    /\ fetchCall' = [fetchCall EXCEPT !.pc = IF fetchCall.json THEN "resolved" ELSE "rejected"]
    /\ UNCHANGED outsideFetch

\* Lines 74, 76-78: the connection breaks while the body is read, or the
\* signal is aborted while it is read; response.json() rejects.
bodyFails ==
    /\ fetchCall.pc = "reading"
    /\ fetchCall' = [fetchCall EXCEPT !.pc = "rejected"]
    /\ UNCHANGED outsideFetch

NextFetch ==
    \/ secondPasses
    \/ timerFires
    \/ fetchAborted
    \/ fetchRejects
    \/ headersArrive
    \/ chunkArrives
    \/ bodyRead
    \/ bodyFails

SpecFetch == InitFetch /\ [][NextFetch]_vars

\* The runtime lets time pass, runs due timers and settles an aborted fetch;
\* when a complete body has arrived it finishes reading it.  What the
\* upstream sends, and when, is up to the upstream.
SpecFetchFair ==
    /\ SpecFetch
    /\ WF_vars(secondPasses)
    /\ WF_vars(timerFires)
    /\ WF_vars(fetchAborted)
    /\ WF_vars(bodyRead)

Settled == fetchCall.pc \in {"resolved", "rejected"}

\* C23: once the timeout of a fetchWithTimeout call has elapsed the call
\* eventually settles (resolves or rejects), whatever the upstream does.
C23_SettlesAfterTimeout ==
    (fetchCall.pc # "off" /\ fetchCall.elapsed >= fetchCall.timeout) ~> Settled

\* ---------------------------------------------------------------------------
\* api/current.ts: the expiries of the handler
\* ---------------------------------------------------------------------------

\* getNextFriday of api/current.ts, lines 97-114; `now` is the clock it reads.
EdgeNextFriday(now) ==
    LET daysUntilFriday == (5 - getUTCDay(now) + 7) % 7
        todayEightAM == setUTCHours(now, 8, 0, 0, 0)
        friday ==
            IF daysUntilFriday = 0
            THEN IF TimeGeq(now, todayEightAM)
                 THEN setUTCDate(now, getUTCDate(now) + 7)
                 ELSE now
            ELSE setUTCDate(now, getUTCDate(now) + daysUntilFriday)
    IN  setUTCHours(friday, 8, 0, 0, 0)

\* Math.ceil(ms / (1000 * 60 * 60 * 24)) of a difference of two instants.
CeilDays(later, earlier) ==
    LET ms == (later.day - earlier.day) * MsPerDay + (later.ms - earlier.ms)
    IN  0 - ((0 - ms) \div MsPerDay)

\* getLastFridayOfMonth of api/current.ts, lines 116-140: `now` is the clock
\* read at line 117, `nowOfFriday` the clock getNextFriday reads at line 121.
EdgeLastFridayOfMonth(now, nowOfFriday) ==
    LET month0 == getUTCMonth(now)
        year0 == getUTCFullYear(now)
        daysToNextFriday == CeilDays(EdgeNextFriday(nowOfFriday), now)
        bumped == daysToNextFriday <= 7
        month == IF bumped THEN (IF month0 + 1 > 11 THEN 0 ELSE month0 + 1) ELSE month0
        year == IF bumped /\ month0 + 1 > 11 THEN year0 + 1 ELSE year0
        lastDay == DateUTC(year, month + 1, 0, 0)
        lastDayOfWeek == getUTCDay(lastDay)
        daysToSubtract == IF lastDayOfWeek = 5 THEN 0 ELSE (lastDayOfWeek + 2) % 7
    IN  setUTCHours(setUTCDate(lastDay, getUTCDate(lastDay) - daysToSubtract), 8, 0, 0, 0)

\* Lines 229-233: |nextFriday - lastFridayOfMonth| < 24 hours.
WithinADay(a, b) ==
    \/ a.day = b.day
    \/ a.day = b.day + 1 /\ a.ms < b.ms
    \/ b.day = a.day + 1 /\ b.ms < a.ms

\* The days the handler is called on: four years from 2024-01-01.
EdgeNumDays == 1461

InitEdge ==
    /\ \E clock0 \in [day : FirstDay..(FirstDay + EdgeNumDays - 1), ms : TimesOfDay] :
          edge = [pc |-> "start", clock |-> clock0, ticks |-> 0]
    /\ LastFridayIdle
    /\ FetchIdle
    /\ HistoryIdle
    /\ ExpiryIdle
    /\ AtmIdle
    /\ QuoteIdle
    /\ ServerIdle

outsideEdge == <<histVars, expiryVars, atm, quote, serverVars, lastFridayCall, fetchCall>>

\* The clock advances by one millisecond between two reads.
edgeTick ==
    /\ edge.pc \in {"friday", "now"}
    /\ edge.ticks < MaxTicks
    /\ edge' = [edge EXCEPT !.ticks = @ + 1,
                            !.clock = IF edge.clock.ms + 1 = MsPerDay
                                      THEN [day |-> edge.clock.day + 1, ms |-> 0]
                                      ELSE [day |-> edge.clock.day, ms |-> edge.clock.ms + 1]]
    /\ UNCHANGED outsideEdge

\* Line 225.
edgeGetNextFriday ==
    /\ edge.pc = "start"
    /\ edge' = [pc |-> "friday", clock |-> edge.clock, ticks |-> edge.ticks,
                nextFriday |-> EdgeNextFriday(edge.clock)]
    /\ UNCHANGED outsideEdge

\* Lines 226, 117: getLastFridayOfMonth is called and reads the clock.
edgeReadNow ==
    /\ edge.pc = "friday"
    /\ edge' = [pc |-> "now", clock |-> edge.clock, ticks |-> edge.ticks,
                nextFriday |-> edge.nextFriday, now |-> edge.clock]
    /\ UNCHANGED outsideEdge

\* Lines 120-139: the rest of getLastFridayOfMonth.
edgeGetLastFridayOfMonth ==
    /\ edge.pc = "now"
    /\ edge' = [pc |-> "monthly", clock |-> edge.clock, ticks |-> edge.ticks,
                nextFriday |-> edge.nextFriday, now |-> edge.now,
                lastFridayOfMonth |-> EdgeLastFridayOfMonth(edge.now, edge.clock)]
    /\ UNCHANGED outsideEdge

\* Lines 229-236: when the two expiries are less than a day apart
\* getLastFridayOfMonth is called again, with no argument; the result is the
\* expiry the monthly option is looked up for.
edgeResolveMonthly ==
    /\ edge.pc = "monthly"
    /\ edge' = [pc |-> "done", clock |-> edge.clock, ticks |-> edge.ticks,
                nextFriday |-> edge.nextFriday, now |-> edge.now,
                lastFridayOfMonth |->
                    IF WithinADay(edge.nextFriday, edge.lastFridayOfMonth)
                    THEN EdgeLastFridayOfMonth(edge.clock, edge.clock)
                    ELSE edge.lastFridayOfMonth]
    /\ UNCHANGED outsideEdge

NextEdge ==
    \/ edgeGetNextFriday
    \/ edgeTick
    \/ edgeReadNow
    \/ edgeGetLastFridayOfMonth
    \/ edgeResolveMonthly

SpecEdge == InitEdge /\ [][NextEdge]_vars

\* The last Friday 08:00 UTC of the month of an instant, and of the month
\* after it.
LastFridayOfMonthOf(now) ==
    LET civil == CivilFromDays(now.day)
    IN  LastFridayAtEight(civil.year, civil.month, now.day - civil.date + 1)
LastFridayOfMonthAfter(now) ==
    LET civil == CivilFromDays(now.day)
    IN  LastFridayAtEight(FollowingYear(civil.year, civil.month),
                          FollowingMonth(civil.month), now.day - civil.date + 1)

\* C24: in the handler of api/current.ts the monthly target expiry is the
\* last Friday 08:00 UTC of the current month when that instant is still in
\* the future and is not the weekly expiry, and the last Friday of the
\* following month otherwise.
C24_EdgeMonthlyExpiry ==
    edge.pc = "done" =>
        LET thisMonth == LastFridayOfMonthOf(edge.now)
        IN  edge.lastFridayOfMonth =
                IF Later(thisMonth, edge.now) /\ thisMonth # edge.nextFriday
                THEN thisMonth
                ELSE LastFridayOfMonthAfter(edge.now)

\* C25: every latched weekly reference snapshot has a date that is a Friday,
\* and every latched monthly reference snapshot has a date that is the 1st of
\* a month.
C25_ReferenceDates ==
    /\ weeklyReferenceSnapshot # NoReference
         => (weeklyReferenceSnapshot.date + 4) % 7 = 5
    /\ monthlyReferenceSnapshot # NoReference
         => CivilFromDays(monthlyReferenceSnapshot.date).date = 1

\* C26: a snapshot published on a Friday is not replaced by a later one
\* before a weekly reference with that snapshot's date is latched.
C26_FridaySnapshotLatchedBeforeReplaced ==
    [][(/\ currentSnapshot # NoSnapshot
        /\ currentSnapshot' # currentSnapshot
        /\ (currentSnapshot.date + 4) % 7 = 5)
         => weeklyReferenceSnapshot.date = currentSnapshot.date]_vars

\* C27: when an /api/current request is answered with a snapshot, that
\* snapshot is the one its realtime comparison was computed from, and the
\* record the request wrote is keyed by that snapshot's date.
C27_ResponseSnapshotIsComparedSnapshot ==
    [][(reader.pc = "realtime" /\ reader'.pc = "idle" /\ lastResponse'.status = 200)
         => /\ lastResponse'.snapshot = reader.snapshot
            /\ historicalRecords'[Len(historicalRecords')].date = reader.snapshot.date]_vars

\* C28: in every reachable state the history records are in strictly
\* ascending date order from front to back.
C28_RecordsAscendingByDate ==
    \A i \in 1..(Len(historicalRecords) - 1) :
        historicalRecords[i].date < historicalRecords[i + 1].date

\* C29: the record an /api/current request writes is stored under the UTC
\* day whose high/low range its ratios were computed from.
C29_RecordHoldsRangeOfItsDate ==
    [][(reader.pc = "realtime" /\ reader'.pc = "idle" /\ lastResponse'.status = 200)
         => historicalRecords'[Len(historicalRecords')].date = lastResponse'.rangeDay]_vars

\* C30: every snapshot handed to calculateRealtime has a strictly positive
\* impliedDailyMove on both legs.
C30_ImpliedDailyMovePositive ==
    quote.pc \in {"realtime", "done"}
        => /\ quote.weeklyOption.impliedDailyMove > 0
           /\ quote.monthlyOption.impliedDailyMove > 0

====
